---- MODULE Spec2Model ----
(***************************************************************************)
(* Model of the deel-task ledger (express handlers over a sequelize        *)
(* store): the pay handler and the deposit handler of the final app.js     *)
(* (src/unnamed/part_001).  Every await of a handler is one step, so the   *)
(* steps of concurrent requests interleave exactly where node's event loop *)
(* lets them.  The store applies each statement atomically.                *)
(***************************************************************************)
EXTENDS Integers, Sequences, FiniteSets, TLC

\* ------------------------------------------------------------------ bounds
MaxBalance == 3     \* largest initial balance of client 1
MaxTime == 2        \* largest value of the clock Date.now()
MaxRequests == 2    \* requests served in one run
MaxDeposits == 1    \* deposits applied in one run

\* ------------------------------------------------------ the stored records
\* SQL NULL and a present value of a nullable column.
NULL == <<>>
Some(x) == <<x>>

Reqs == {"r1", "r2"}

Profiles == {1, 2, 3, 4}
NoProfile == 9
Contracts == {1, 2, 3}
Jobs == {1, 2, 3, 4}
NoJob == 9

ProfileType(p) == IF p \in {1, 2} THEN "client" ELSE "contractor"
Profession(p) == CASE p = 1 -> "wizard" [] p = 2 -> "knight"
                   [] p = 3 -> "programmer" [] OTHER -> "designer"

Contract(c) ==
    CASE c = 1 -> [ClientId |-> 1, ContractorId |-> 3, status |-> "in_progress"]
      [] c = 2 -> [ClientId |-> 1, ContractorId |-> 4, status |-> "terminated"]
      [] OTHER -> [ClientId |-> 2, ContractorId |-> 4, status |-> "new"]

JobContractId(j) == CASE j = 1 -> 1 [] j = 2 -> 1 [] j = 3 -> 2 [] OTHER -> 3
JobPrice(j) == CASE j = 1 -> 2 [] j = 2 -> 3 [] j = 3 -> 1 [] OTHER -> 4

Amounts == {-1, 0, 5, 6}

VARIABLES
    Profile,     \* the profiles table: id -> [balance]
    Job,         \* the jobs table: id -> [paid, paymentDate]
    now,         \* the clock read by Date.now()
    req,         \* each request slot: position in its handler and its locals
    started,     \* number of requests received so far
    deposits,    \* number of deposit increments applied so far
    applied,     \* per profile, the sum of the deltas of the increments applied
    initial      \* the balances at start

vars == <<Profile, Job, now, req, started, deposits, applied, initial>>

Idle == [pc |-> "idle", op |-> "none", caller |-> 0, target |-> 0,
         job |-> NULL, client |-> NULL, amount |-> 0, debt |-> NULL,
         result |-> "none", retry |-> FALSE, query |-> NULL, body |-> NULL]

\* ---------------------------------------------------------------- queries

\* The condition on the caller left out of the join: any profile finds the job
\* of a contract that is not terminated.
FindJobAnyCaller(jobId, profileId) ==
    IF /\ jobId \in Jobs
       /\ Contract(JobContractId(jobId)).status # "terminated"
    THEN Some([id |-> jobId, paid |-> Job[jobId].paid, price |-> JobPrice(jobId),
               Contract |-> Contract(JobContractId(jobId))])
    ELSE NULL

\* Job.findOne({include: {model: Contract, where: {status not terminated,
\* ClientId: req.profile.id}}, where: {id: job_id}}): the inner join drops the
\* job when its contract does not match.
FindJob(jobId, profileId) ==
    IF /\ jobId \in Jobs
       /\ Contract(JobContractId(jobId)).status # "terminated"
       /\ Contract(JobContractId(jobId)).ClientId = profileId
    THEN Some([id |-> jobId, paid |-> Job[jobId].paid, price |-> JobPrice(jobId),
               Contract |-> Contract(JobContractId(jobId))])
    ELSE NULL

\* Profile.findOne({where: {id}})
FindProfile(id) ==
    IF id \in Profiles THEN Some([id |-> id, balance |-> Profile[id].balance])
    ELSE NULL

RECURSIVE SumPrice(_)
SumPrice(S) ==
    IF S = {} THEN 0
    ELSE LET j == CHOOSE x \in S : TRUE IN JobPrice(j) + SumPrice(S \ {j})

\* The rows of the debt query: jobs with paid IS NULL joined to a contract of
\* the client that is not terminated.
DebtRows(clientId) ==
    {j \in Jobs : /\ Job[j].paid = NULL
                  /\ Contract(JobContractId(j)).status # "terminated"
                  /\ Contract(JobContractId(j)).ClientId = clientId}

\* sum(price) over the rows; SQL's sum of no rows is NULL.
DebtTotal(clientId) ==
    IF DebtRows(clientId) = {} THEN NULL ELSE Some(SumPrice(DebtRows(clientId)))

\* JavaScript's numeric value of total in total * 1.25: null is 0.
ToNumber(v) == IF v = NULL THEN 0 ELSE v[1]

\* The cap taken as the debt itself, the factor 1.25 forgotten.
CapExceededNoFactor(amt, total) == amt > ToNumber(total)

\* req.body.amount > debt.get('total') * 1.25, in quarters.
CapExceeded(amt, total) == amt * 4 > ToNumber(total) * 5

\* if (job.paid)
Truthy(v) == v # NULL /\ v[1] = TRUE

\* The affordability check left out.
InsufficientSkipped(price, bal) == FALSE

\* The comparison made with >=: a price equal to the balance is refused.
InsufficientOrEqual(price, bal) == price >= bal

\* job.price > client.balance
Insufficient(price, bal) == price > bal

\* ----------------------------------------------------------------- writes

\* A read-then-write of the whole value: the client's balance is written from
\* the copy the request read earlier.
IncrementStale(r, id, delta) ==
    [Profile EXCEPT ![id].balance =
        IF req[r].client # NULL /\ req[r].client[1].id = id
        THEN req[r].client[1].balance + delta ELSE @ + delta]

\* Profile.increment({balance: delta}, {where: {id}}): one UPDATE ... SET
\* balance = balance + delta.
Increment(r, id, delta) ==
    [Profile EXCEPT ![id].balance = @ + delta]

\* The update writes the date and leaves paid as it was.
JobUpdateDateOnly(id, t) ==
    [Job EXCEPT ![id].paymentDate = Some(t)]

\* The update writes paid and leaves the date as it was.
JobUpdatePaidOnly(id, t) ==
    [Job EXCEPT ![id].paid = Some(TRUE)]

\* The update writes the negation of the stored flag (paid: !paid): a second
\* update of the same job sets it back to unpaid.
JobUpdateToggle(id, t) ==
    [Job EXCEPT ![id] = IF Truthy(Job[id].paid)
                        THEN [paid |-> NULL, paymentDate |-> NULL]
                        ELSE [paid |-> Some(TRUE), paymentDate |-> Some(t)]]

\* Job.update({paid: true, paymentDate: Date.now()}, {where: {id}})
JobUpdate(id, t) ==
    [Job EXCEPT ![id] = [paid |-> Some(TRUE), paymentDate |-> Some(t)]]

\* History of the deltas the store was asked to apply.
Applied(id, delta) == [applied EXCEPT ![id] = @ + delta]

\* ---------------------------------------------------------------- Init
\* The balances at start: client 1 holds b, client 2 the price of its one job,
\* the contractors nothing.
StartBalance(p, b) == IF p = 1 THEN b ELSE IF p = 2 THEN JobPrice(4) ELSE 0

Init ==
    /\ \E b \in 0..MaxBalance :
         /\ Profile = [p \in Profiles |-> [balance |-> StartBalance(p, b)]]
         /\ initial = [p \in Profiles |-> StartBalance(p, b)]
    /\ \E P \in {{}, {4}} :
         Job = [j \in Jobs |-> IF j \in P THEN [paid |-> Some(TRUE), paymentDate |-> Some(0)]
                                ELSE [paid |-> NULL, paymentDate |-> NULL]]
    /\ now = 1
    /\ req = [r \in Reqs |-> Idle]
    /\ started = 0
    /\ deposits = 0
    /\ applied = [p \in Profiles |-> 0]

Free(r) == req[r].pc \in {"idle", "done"} /\ started < MaxRequests

\* A pay request by the same caller for the same job has already been answered
\* Paid.
Repeats(r, caller, jobId) ==
    \E q \in Reqs : /\ req[q].pc = "done" /\ req[q].op = "pay"
                    /\ req[q].result = "Paid"
                    /\ req[q].caller = caller /\ req[q].target = jobId

\* ------------------------------------------------- POST /jobs/:job_id/pay

PayFindJob(r, caller, jobId) ==
    /\ Free(r)
    /\ LET job == FindJob(jobId, caller) IN
         req' = [req EXCEPT ![r] =
            IF job = NULL
            THEN [Idle EXCEPT !.pc = "done", !.op = "pay", !.caller = caller,
                              !.target = jobId, !.result = "NotFound",
                              !.retry = Repeats(r, caller, jobId)]
            ELSE [Idle EXCEPT !.pc = "profiles", !.op = "pay", !.caller = caller,
                              !.target = jobId, !.job = job,
                              !.retry = Repeats(r, caller, jobId)]]
    /\ started' = started + 1
    /\ UNCHANGED <<Profile, Job, now, deposits, applied, initial>>

\* The two checks in the other order: the balance first, then job.paid.
PayFindProfilesSwapped(r) ==
    /\ req[r].pc = "profiles"
    /\ LET job == req[r].job[1]
           client == FindProfile(job.Contract.ClientId)
       IN req' = [req EXCEPT ![r] =
            IF Insufficient(job.price, client[1].balance)
            THEN [@ EXCEPT !.pc = "done", !.result = "InsufficientFunds", !.job = NULL]
            ELSE IF Truthy(job.paid)
            THEN [@ EXCEPT !.pc = "done", !.result = "AlreadyPaid", !.job = NULL]
            ELSE [@ EXCEPT !.pc = "debit", !.client = client]]
    /\ UNCHANGED <<Profile, Job, now, started, deposits, applied, initial>>

PayFindProfiles(r) ==
    /\ req[r].pc = "profiles"
    /\ LET job == req[r].job[1]
           client == FindProfile(job.Contract.ClientId)
       IN req' = [req EXCEPT ![r] =
            IF Truthy(job.paid)
            THEN [@ EXCEPT !.pc = "done", !.result = "AlreadyPaid", !.job = NULL]
            ELSE IF Insufficient(job.price, client[1].balance)
            THEN [@ EXCEPT !.pc = "done", !.result = "InsufficientFunds", !.job = NULL]
            ELSE [@ EXCEPT !.pc = "debit", !.client = client]]
    /\ UNCHANGED <<Profile, Job, now, started, deposits, applied, initial>>

PayDebit(r) ==
    /\ req[r].pc = "debit"
    /\ LET job == req[r].job[1] IN
         /\ Profile' = Increment(r, req[r].client[1].id, 0 - job.price)
         /\ applied' = Applied(req[r].client[1].id, 0 - job.price)
    /\ req' = [req EXCEPT ![r].pc = "credit"]
    /\ UNCHANGED <<Job, now, started, deposits, initial>>

\* The credit copies the debit's sign (job.price * -1).
PayCreditNegated(r) ==
    /\ req[r].pc = "credit"
    /\ LET job == req[r].job[1] IN
         /\ Profile' = Increment(r, job.Contract.ContractorId, 0 - job.price)
         /\ applied' = Applied(job.Contract.ContractorId, 0 - job.price)
    /\ req' = [req EXCEPT ![r].pc = "mark"]
    /\ UNCHANGED <<Job, now, started, deposits, initial>>

PayCredit(r) ==
    /\ req[r].pc = "credit"
    /\ LET job == req[r].job[1] IN
         /\ Profile' = Increment(r, job.Contract.ContractorId, job.price)
         /\ applied' = Applied(job.Contract.ContractorId, job.price)
    /\ req' = [req EXCEPT ![r].pc = "mark"]
    /\ UNCHANGED <<Job, now, started, deposits, initial>>

PayMark(r) ==
    /\ req[r].pc = "mark"
    /\ \E t \in now..MaxTime :
         /\ now' = t
         /\ Job' = JobUpdate(req[r].job[1].id, t)
    /\ req' = [req EXCEPT ![r] = [@ EXCEPT !.pc = "done", !.result = "Paid",
                                           !.job = NULL, !.client = NULL]]
    /\ UNCHANGED <<Profile, started, deposits, applied, initial>>

\* A statement of the transfer is rejected by the store, or the process stops
\* before it: the handler's promise rejects and the request is never answered.
PayAbort(r) ==
    /\ req[r].pc \in {"debit", "credit", "mark"}
    /\ req' = [req EXCEPT ![r] = [@ EXCEPT !.pc = "failed", !.job = NULL, !.client = NULL]]
    /\ UNCHANGED <<Profile, Job, now, started, deposits, applied, initial>>

\* ------------------------------------------ POST /balances/deposit/:userId

DepositFindClient(r, userId, amt) ==
    /\ Free(r)
    /\ LET client == FindProfile(userId) IN
         req' = [req EXCEPT ![r] =
            IF client = NULL
            THEN [Idle EXCEPT !.pc = "done", !.op = "deposit", !.target = userId,
                              !.amount = amt, !.result = "NotFound"]
            ELSE [Idle EXCEPT !.pc = "debt", !.op = "deposit", !.target = userId,
                              !.amount = amt, !.client = client]]
    /\ started' = started + 1
    /\ UNCHANGED <<Profile, Job, now, deposits, applied, initial>>

DepositSumDebt(r) ==
    /\ req[r].pc = "debt"
    /\ LET total == DebtTotal(req[r].client[1].id) IN
         req' = [req EXCEPT ![r] =
            IF CapExceeded(req[r].amount, total)
            THEN [@ EXCEPT !.pc = "done", !.result = "CapExceeded", !.client = NULL]
            ELSE [@ EXCEPT !.pc = "inc", !.debt = total]]
    /\ UNCHANGED <<Profile, Job, now, started, deposits, applied, initial>>

DepositIncrement(r) ==
    /\ req[r].pc = "inc"
    /\ deposits < MaxDeposits
    /\ Profile' = Increment(r, req[r].client[1].id, req[r].amount)
    /\ applied' = Applied(req[r].client[1].id, req[r].amount)
    /\ deposits' = deposits + 1
    /\ req' = [req EXCEPT ![r] = [@ EXCEPT !.pc = "done", !.result = "Deposited",
                                           !.client = NULL, !.debt = NULL]]
    /\ UNCHANGED <<Job, now, started, initial>>

Next ==
    \/ \E r \in Reqs, caller \in Profiles, jobId \in Jobs \cup {NoJob} :
          PayFindJob(r, caller, jobId)
    \/ \E r \in Reqs : PayFindProfiles(r)
    \/ \E r \in Reqs : PayDebit(r)
    \/ \E r \in Reqs : PayCredit(r)
    \/ \E r \in Reqs : PayMark(r)
    \/ \E r \in Reqs : PayAbort(r)
    \/ \E r \in Reqs, userId \in Profiles \cup {NoProfile}, amt \in Amounts :
          DepositFindClient(r, userId, amt)
    \/ \E r \in Reqs : DepositSumDebt(r)
    \/ \E r \in Reqs : DepositIncrement(r)

Spec == Init /\ [][Next]_vars

\* ---------------------------------------------------- the read handlers

FullName(p) == CASE p = 1 -> "Harry Potter" [] p = 2 -> "Mr Robot"
                 [] p = 3 -> "John Lenon" [] OTHER -> "Linus Torvalds"

DefaultLimit == 2

\* The values of the query parameters start and end, and of limit (absent, or
\* a number).
Times == 0..MaxTime
Limits == {NULL, Some(1)}

ContractRow(c) ==
    [id |-> c, ClientId |-> Contract(c).ClientId,
     ContractorId |-> Contract(c).ContractorId, status |-> Contract(c).status]

\* The condition on the caller left out of the where clause.
PartyAny(c, profileId) == TRUE

\* [Op.or]: [{ContractorId: req.profile.id}, {ClientId: req.profile.id}]
Party(c, profileId) ==
    Contract(c).ContractorId = profileId \/ Contract(c).ClientId = profileId

\* Contract.findOne({where: {id, [Op.or]: ...}})
FindContract(id, profileId) ==
    IF id \in Contracts /\ Party(id, profileId) THEN Some(ContractRow(id)) ELSE NULL

\* Contract.findAll({where: {status: {[Op.not]: 'terminated'}, [Op.or]: ...}})
FindContracts(profileId) ==
    {ContractRow(c) : c \in {x \in Contracts :
        Contract(x).status # "terminated" /\ Party(x, profileId)}}

\* The contract status the unpaid-jobs query selects.
UnpaidStatus(status) == status = "in_progress"

\* Job.findAll({include: {model: Contract, where: {status: 'in_progress',
\* [Op.or]: ...}}, where: {ContractId: Contract.id, paid: null}})
FindUnpaidJobs(profileId) ==
    {j \in Jobs : /\ UnpaidStatus(Contract(JobContractId(j)).status)
                  /\ Party(JobContractId(j), profileId)
                  /\ Job[j].paid = NULL}

\* where: {paymentDate: {[Op.gt]: start, [Op.lt]: end}}; a NULL date
\* satisfies no comparison.
PaymentDateBetween(date, start, end) ==
    date # NULL /\ date[1] > start /\ date[1] < end

WindowRows(start, end) ==
    {j \in Jobs : PaymentDateBetween(Job[j].paymentDate, start, end)}

\* group: 'Contract.Contractor.profession', sum(price) as total
ProfessionOf(j) == Profession(Contract(JobContractId(j)).ContractorId)
ProfessionGroups(start, end) == {ProfessionOf(j) : j \in WindowRows(start, end)}
ProfessionTotal(g, start, end) ==
    SumPrice({j \in WindowRows(start, end) : ProfessionOf(j) = g})

\* order: [['total', 'DESC']] and findOne's limit 1: the first row is a group
\* of the largest total; which one among equal totals the order does not say.
FirstProfessions(start, end) ==
    {g \in ProfessionGroups(start, end) :
        \A h \in ProfessionGroups(start, end) :
            ProfessionTotal(g, start, end) >= ProfessionTotal(h, start, end)}

\* group: 'Contract.Client.id', sum(price) as paid
ClientOf(j) == Contract(JobContractId(j)).ClientId
ClientGroups(start, end) == {ClientOf(j) : j \in WindowRows(start, end)}
ClientTotal(c, start, end) ==
    SumPrice({j \in WindowRows(start, end) : ClientOf(j) = c})

\* order: [['paid', 'DESC']]: every listing of the groups in which the totals
\* do not increase.
ClientOrders(start, end) ==
    LET G == ClientGroups(start, end)
        n == Cardinality(G)
    IN {s \in [1..n -> G] :
          /\ \A i, k \in 1..n : i # k => s[i] # s[k]
          /\ \A i, k \in 1..n : i < k =>
                ClientTotal(s[i], start, end) >= ClientTotal(s[k], start, end)}

\* limit: req.query.limit || 2
LimitOf(limit) == IF limit = NULL THEN DefaultLimit ELSE limit[1]

Take(s, n) == [i \in 1..(IF n < Len(s) THEN n ELSE Len(s)) |-> s[i]]

\* clientExpenses.map(...): id, fullName and the summed paid of each row
ClientRows(s, start, end) ==
    [i \in 1..Len(s) |-> [id |-> s[i], fullName |-> FullName(s[i]),
                          paid |-> ClientTotal(s[i], start, end)]]

Answer(op, caller, target, query, result, body) ==
    [Idle EXCEPT !.pc = "done", !.op = op, !.caller = caller, !.target = target,
                 !.query = query, !.result = result, !.body = body]

\* A read request arrives: each slot shows one read request and its answer.
Fresh(r) == req[r].pc = "idle" /\ started < MaxRequests

\* GET /contracts/:id
GetContract(r, caller, id) ==
    /\ Fresh(r)
    /\ LET contract == FindContract(id, caller) IN
         req' = [req EXCEPT ![r] =
            IF contract = NULL
            THEN Answer("contract", caller, id, NULL, "NotFound", NULL)
            ELSE Answer("contract", caller, id, NULL, "Ok", contract)]
    /\ started' = started + 1
    /\ UNCHANGED <<Profile, Job, now, deposits, applied, initial>>

\* GET /contracts
GetContracts(r, caller) ==
    /\ Fresh(r)
    /\ req' = [req EXCEPT ![r] =
          Answer("contracts", caller, 0, NULL, "Ok", Some(FindContracts(caller)))]
    /\ started' = started + 1
    /\ UNCHANGED <<Profile, Job, now, deposits, applied, initial>>

\* GET /jobs/unpaid
GetUnpaidJobs(r, caller) ==
    /\ Fresh(r)
    /\ req' = [req EXCEPT ![r] =
          Answer("unpaid", caller, 0, NULL, "Ok", Some(FindUnpaidJobs(caller)))]
    /\ started' = started + 1
    /\ UNCHANGED <<Profile, Job, now, deposits, applied, initial>>

\* GET /admin/best-profession
BestProfession(r, start, end) ==
    /\ Fresh(r)
    /\ LET q == Some([start |-> start, end |-> end, limit |-> NULL]) IN
         IF ProfessionGroups(start, end) = {}
         THEN req' = [req EXCEPT ![r] =
                 Answer("bestProfession", 0, 0, q, "NotFound", NULL)]
         ELSE \E g \in FirstProfessions(start, end) :
                 req' = [req EXCEPT ![r] =
                    Answer("bestProfession", 0, 0, q, "Ok", Some(g))]
    /\ started' = started + 1
    /\ UNCHANGED <<Profile, Job, now, deposits, applied, initial>>

\* GET /admin/best-clients
BestClients(r, start, end, limit) ==
    /\ Fresh(r)
    /\ LET q == Some([start |-> start, end |-> end, limit |-> limit]) IN
         \E s \in ClientOrders(start, end) :
            req' = [req EXCEPT ![r] =
               Answer("bestClients", 0, 0, q, "Ok",
                      Some(ClientRows(Take(s, LimitOf(limit)), start, end)))]
    /\ started' = started + 1
    /\ UNCHANGED <<Profile, Job, now, deposits, applied, initial>>

\* The stored jobs the read handlers are asked about: each job unpaid, or
\* paid at some time up to now.
InitRead ==
    /\ Profile = [p \in Profiles |-> [balance |-> StartBalance(p, 0)]]
    /\ initial = [p \in Profiles |-> StartBalance(p, 0)]
    /\ \E d \in [Jobs -> {NULL} \cup {Some(t) : t \in Times}] :
         Job = [j \in Jobs |-> IF d[j] = NULL
                                THEN [paid |-> NULL, paymentDate |-> NULL]
                                ELSE [paid |-> Some(TRUE), paymentDate |-> d[j]]]
    /\ now = MaxTime
    /\ req = [r \in Reqs |-> Idle]
    /\ started = 0
    /\ deposits = 0
    /\ applied = [p \in Profiles |-> 0]

NextRead ==
    \/ \E r \in Reqs, caller \in Profiles, id \in Contracts \cup {NoJob} :
          GetContract(r, caller, id)
    \/ \E r \in Reqs, caller \in Profiles : GetContracts(r, caller)
    \/ \E r \in Reqs, caller \in Profiles : GetUnpaidJobs(r, caller)

SpecRead == InitRead /\ [][NextRead]_vars

NextReport ==
    \/ \E r \in Reqs, start \in Times, end \in Times : BestProfession(r, start, end)
    \/ \E r \in Reqs, start \in Times, end \in Times, limit \in Limits :
          BestClients(r, start, end, limit)

SpecReport == InitRead /\ [][NextReport]_vars

\* ------------------------- POST /jobs/:job_id/pay as written in src/app.js

\* Contract.findOne({include: {model: Job, where: {id: job_id}}, where: {id:
\* col('Job.ContractId'), status not terminated, ClientId: req.profile.id}}),
\* when the column reference resolves.
FindContractOfJob(jobId, profileId) ==
    IF /\ jobId \in Jobs
       /\ Contract(JobContractId(jobId)).status # "terminated"
       /\ Contract(JobContractId(jobId)).ClientId = profileId
    THEN Some([ClientId |-> Contract(JobContractId(jobId)).ClientId,
               ContractorId |-> Contract(JobContractId(jobId)).ContractorId,
               Job |-> [id |-> jobId, paid |-> Job[jobId].paid,
                        price |-> JobPrice(jobId)]])
    ELSE NULL

\* The first query.  Its where clause names the column Job.ContractId, which
\* the store rejects ("SQLITE_ERROR: no such column: Job.ContractId"): the
\* handler's promise rejects and no answer is sent.  Where the reference does
\* resolve, the query answers the contract or nothing.
OldPayFindContract(r, caller, jobId) ==
    /\ Free(r)
    /\ \/ req' = [req EXCEPT ![r] =
             [Idle EXCEPT !.pc = "failed", !.op = "payOld", !.caller = caller,
                          !.target = jobId]]
       \/ LET contract == FindContractOfJob(jobId, caller) IN
             req' = [req EXCEPT ![r] =
                IF contract = NULL
                THEN [Idle EXCEPT !.pc = "done", !.op = "payOld", !.caller = caller,
                                  !.target = jobId, !.result = "NotFound"]
                ELSE [Idle EXCEPT !.pc = "oldProfiles", !.op = "payOld",
                                  !.caller = caller, !.target = jobId,
                                  !.job = contract]]
    /\ started' = started + 1
    /\ UNCHANGED <<Profile, Job, now, deposits, applied, initial>>

OldPayFindProfiles(r) ==
    /\ req[r].pc = "oldProfiles"
    /\ LET contract == req[r].job[1]
           client == FindProfile(contract.ClientId)
       IN req' = [req EXCEPT ![r] =
            IF Truthy(contract.Job.paid)
            THEN [@ EXCEPT !.pc = "done", !.result = "AlreadyPaid", !.job = NULL]
            ELSE IF Insufficient(contract.Job.price, client[1].balance)
            THEN [@ EXCEPT !.pc = "done", !.result = "InsufficientFunds", !.job = NULL]
            ELSE [@ EXCEPT !.pc = "oldTransaction", !.client = client]]
    /\ UNCHANGED <<Profile, Job, now, started, deposits, applied, initial>>

\* The transaction's first statement evaluates job.price, and no job is
\* declared in this handler: a ReferenceError before any write.  The
\* transaction rolls back, the handler's promise rejects, no answer is sent.
OldPayTransaction(r) ==
    /\ req[r].pc = "oldTransaction"
    /\ req' = [req EXCEPT ![r] = [@ EXCEPT !.pc = "failed", !.job = NULL, !.client = NULL]]
    /\ UNCHANGED <<Profile, Job, now, started, deposits, applied, initial>>

NextOld ==
    \/ \E r \in Reqs, caller \in Profiles, jobId \in Jobs \cup {NoJob} :
          OldPayFindContract(r, caller, jobId)
    \/ \E r \in Reqs : OldPayFindProfiles(r)
    \/ \E r \in Reqs : OldPayTransaction(r)

SpecOld == Init /\ [][NextOld]_vars

\* ================================================================ claims

RECURSIVE SumOver(_, _)
SumOver(f, S) ==
    IF S = {} THEN 0
    ELSE LET x == CHOOSE y \in S : TRUE IN f[x] + SumOver(f, S \ {x})

Balances == [p \in Profiles |-> Profile[p].balance]
Answered(r, op, result) ==
    req[r].pc = "done" /\ req[r].op = op /\ req[r].result = result
Quiescent == \A r \in Reqs : req[r].pc \in {"idle", "done"}
\* The step taken is a step of request r.
StepOf(r) == req'[r] # req[r]
JobClient(j) == Contract(JobContractId(j)).ClientId
JobActive(j) == Contract(JobContractId(j)).status # "terminated"
\* The debt D of the deposit cap: the prices of the client's jobs that are not
\* paid, under contracts that are not terminated.
UnpaidDebt(u) ==
    SumPrice({j \in Jobs : ~Truthy(Job[j].paid) /\ JobActive(j) /\ JobClient(j) = u})

\* C1: of two pay requests by the client for the same job, only one is
\* answered Paid (the other AlreadyPaid), so the price moves once.
C1_OnePaidPerJob ==
    \A r, q \in Reqs :
        (r # q /\ Answered(r, "pay", "Paid") /\ Answered(q, "pay", "Paid"))
            => req[r].target # req[q].target

\* C2: while only payments have changed balances, no balance is negative.
C2_BalanceNonNegative ==
    deposits = 0 => \A p \in Profiles : Profile[p].balance >= 0

\* C3: when the only request served is a payment that failed on the way, the
\* store is as it was before it: balances unchanged and the job unpaid.
C3_AllOrNothing ==
    \A r \in Reqs :
        (started = 1 /\ req[r].pc = "failed")
            => /\ Balances = initial
               /\ Job[req[r].target] = [paid |-> NULL, paymentDate |-> NULL]

\* C4: when every request has been answered and no deposit was applied, the
\* balances sum to what they summed to at the start.
C4_Conservation ==
    (Quiescent /\ deposits = 0)
        => SumOver(Balances, Profiles) = SumOver(initial, Profiles)

C4_Witness ==
    /\ Answered("r1", "pay", "Paid") /\ Answered("r2", "pay", "Paid")
    /\ req["r1"].target = req["r2"].target
    /\ deposits = 0

\* C5: a pay request that starts after the same caller's request for the same
\* job was answered Paid is answered AlreadyPaid, and no step of it changes a
\* balance.
C5_SecondCallAlreadyPaid ==
    /\ [](\A r \in Reqs : (req[r].pc = "done" /\ req[r].retry)
                              => req[r].result = "AlreadyPaid")
    /\ [][\A r \in Reqs : (req[r].retry /\ req[r].pc \notin {"idle", "done"} /\ StepOf(r))
                              => Profile' = Profile]_vars

C5_Witness ==
    /\ Answered("r1", "pay", "Paid")
    /\ Answered("r2", "pay", "AlreadyPaid") /\ req["r2"].retry
    /\ req["r1"].target = req["r2"].target

\* C6: when the client's request for an unpaid job of a contract that is not
\* terminated reads a balance below the price, it is answered
\* InsufficientFunds and no balance and no job changes.
C6_InsufficientFunds ==
    [][\A r \in Reqs :
        (/\ req[r].op = "pay" /\ req[r].pc = "profiles" /\ StepOf(r)
         /\ req[r].caller = JobClient(req[r].target) /\ JobActive(req[r].target)
         /\ ~Truthy(Job[req[r].target].paid)
         /\ JobPrice(req[r].target) > Profile[req[r].caller].balance)
        => /\ req'[r].pc = "done" /\ req'[r].result = "InsufficientFunds"
           /\ Profile' = Profile /\ Job' = Job]_vars

C6_Witness ==
    \E r \in Reqs :
        /\ Answered(r, "pay", "InsufficientFunds")
        /\ ~Truthy(Job[req[r].target].paid)
        /\ JobPrice(req[r].target) > Profile[req[r].caller].balance
        /\ Balances = initial

\* C7: a pay request for an existing job whose contract is terminated or is
\* not the caller's is answered Forbidden, a result other than NotFound.
C7_Forbidden ==
    \A r \in Reqs :
        (/\ req[r].pc = "done" /\ req[r].op = "pay" /\ req[r].target \in Jobs
         /\ (~JobActive(req[r].target) \/ JobClient(req[r].target) # req[r].caller))
        => req[r].result = "Forbidden"

\* C8: a deposit of a positive amount to an existing client goes on to the
\* increment exactly when 4 * amount <= 5 * D, D the client's debt when it is
\* summed, and is otherwise answered CapExceeded with no balance changed; the
\* increment adds exactly the amount and is answered Deposited.
C8_DepositCap ==
    [][\A r \in Reqs :
        /\ (req[r].pc = "debt" /\ StepOf(r) /\ req[r].amount > 0)
            => /\ Profile' = Profile
               /\ IF req[r].amount * 4 <= UnpaidDebt(req[r].target) * 5
                  THEN req'[r].pc = "inc"
                  ELSE req'[r].pc = "done" /\ req'[r].result = "CapExceeded"
        /\ (req[r].pc = "inc" /\ StepOf(r) /\ req[r].amount > 0)
            => /\ req'[r].pc = "done" /\ req'[r].result = "Deposited"
               /\ Profile' = [Profile EXCEPT ![req[r].target].balance = @ + req[r].amount]
      ]_vars

C8_Witness ==
    \E r, q \in Reqs :
        /\ Answered(r, "deposit", "Deposited") /\ req[r].amount > 0
        /\ Profile[req[r].target].balance = initial[req[r].target] + req[r].amount
        /\ Answered(q, "deposit", "CapExceeded") /\ req[q].amount > 0
        /\ UnpaidDebt(req[q].target) = 0

\* C9: every balance is its value at the start plus the sum of the deltas of
\* all the increments applied to it, whatever the interleaving.
C9_NoLostUpdate ==
    \A p \in Profiles : Profile[p].balance = initial[p] + applied[p]

\* Two payments by client 1, for jobs 1 and 2, that ran side by side: both
\* passed the affordability check of a balance that covers only one.
C9_Witness ==
    /\ Answered("r1", "pay", "Paid") /\ req["r1"].target = 1
    /\ Answered("r2", "pay", "Paid") /\ req["r2"].target = 2
    /\ applied[1] = 0 - (JobPrice(1) + JobPrice(2))
    /\ Profile[1].balance < 0

\* C10: in every state, a job's paymentDate is set exactly when its paid is
\* true.
C10_DateIffPaid ==
    \A j \in Jobs : (Job[j].paymentDate # NULL) <=> Truthy(Job[j].paid)

\* A payment between its credit and its job update, beside a job paid in this
\* run.
C10_Witness ==
    /\ \E r \in Reqs : req[r].pc = "mark" /\ Job[req[r].target].paid = NULL
    /\ \E j \in Jobs : Truthy(Job[j].paid) /\ Job[j].paymentDate = Some(now)
    /\ \E q \in Reqs : Answered(q, "pay", "Paid")

\* C11: a job whose paid flag is true has it true after every step.
C11_PaidStaysPaid ==
    [][\A j \in Jobs : Truthy(Job[j].paid) => Truthy(Job'[j].paid)]_vars

\* A job paid in this run, in a state from which a second update of the same
\* job is still to come.
C11_Witness ==
    \E r \in Reqs :
        /\ req[r].pc = "mark"
        /\ Truthy(Job[req[r].target].paid)
        /\ Job[req[r].target].paymentDate = Some(now)

\* C18: the pay handler reads the job's paid flag from the store, and a request
\* that read paid = true is answered AlreadyPaid with nothing changed, whatever
\* the client's balance.
C18_PaidCheckedFirst ==
    [][\A r \in Reqs :
        /\ (StepOf(r) /\ req'[r].op = "pay" /\ req'[r].pc = "profiles")
              => req'[r].job[1].paid = Job[req'[r].target].paid
        /\ (StepOf(r) /\ req[r].op = "pay" /\ req[r].pc = "profiles"
              /\ Truthy(req[r].job[1].paid))
              => /\ req'[r].pc = "done" /\ req'[r].result = "AlreadyPaid"
                 /\ Profile' = Profile /\ Job' = Job
      ]_vars

C18_Witness ==
    \E r \in Reqs :
        /\ Answered(r, "pay", "AlreadyPaid")
        /\ req[r].caller = JobClient(req[r].target)
        /\ JobPrice(req[r].target) > Profile[req[r].caller].balance

\* C19: when the only request served is a payment by the client of a job not
\* paid before, under a contract that is not terminated, with a balance equal
\* to the price, it is answered Paid and the client's balance is 0.
C19_ExactBalanceAccepted ==
    \A r \in Reqs :
        (/\ started = 1 /\ req[r].pc = "done" /\ req[r].op = "pay"
         /\ req[r].target \in Jobs
         /\ req[r].caller = JobClient(req[r].target) /\ JobActive(req[r].target)
         /\ Job[req[r].target].paymentDate # Some(0)
         /\ initial[req[r].caller] = JobPrice(req[r].target))
        => /\ req[r].result = "Paid"
           /\ Profile[req[r].caller].balance = 0

C19_Witness ==
    \E r \in Reqs :
        /\ started = 1 /\ Answered(r, "pay", "Paid")
        /\ initial[req[r].caller] = JobPrice(req[r].target)
        /\ Profile[req[r].caller].balance = 0
        /\ Truthy(Job[req[r].target].paid)

\* ------------------------------------------------ the reporting claims

IsReport(r, op) == req[r].pc = "done" /\ req[r].op = op
\* The paid jobs of the half-open window [start, end).
HalfOpenRows(start, end) ==
    {j \in Jobs : /\ Truthy(Job[j].paid) /\ Job[j].paymentDate # NULL
                  /\ Job[j].paymentDate[1] >= start /\ Job[j].paymentDate[1] < end}
Earned(g, start, end) ==
    SumPrice({j \in HalfOpenRows(start, end) :
                Profession(Contract(JobContractId(j)).ContractorId) = g})
Spent(c, start, end) ==
    SumPrice({j \in HalfOpenRows(start, end) : JobClient(j) = c})
Earners(start, end) ==
    {Profession(Contract(JobContractId(j)).ContractorId) : j \in HalfOpenRows(start, end)}
Spenders(start, end) == {JobClient(j) : j \in HalfOpenRows(start, end)}

\* C12: both reports count a job paid exactly at start and do not count one
\* paid exactly at end: a report finds nothing exactly when no paid job has
\* start <= paymentDate < end.
C12_HalfOpenWindow ==
    \A r \in Reqs :
        /\ IsReport(r, "bestProfession") =>
              (req[r].result = "NotFound"
                 <=> HalfOpenRows(req[r].query[1].start, req[r].query[1].end) = {})
        /\ IsReport(r, "bestClients") =>
              (Len(req[r].body[1]) = 0
                 <=> HalfOpenRows(req[r].query[1].start, req[r].query[1].end) = {})

\* C13: bestProfession answers a profession whose earnings over the paid jobs
\* of the window are the largest, and not-found when the window holds no paid
\* job.
C13_BestProfession ==
    \A r \in Reqs :
        IsReport(r, "bestProfession") =>
            LET start == req[r].query[1].start
                end == req[r].query[1].end
            IN IF Earners(start, end) = {}
               THEN req[r].result = "NotFound"
               ELSE /\ req[r].result = "Ok"
                    /\ req[r].body[1] \in Earners(start, end)
                    /\ \A g \in Earners(start, end) :
                          Earned(req[r].body[1], start, end) >= Earned(g, start, end)

\* C14: bestClients answers at most limit rows (2 without a limit), one per
\* client, the totals not increasing, each total the client's spending over
\* the paid jobs of the window, and no client left out spent more than one
\* that is listed, nor is one left out while there is room.
C14_BestClients ==
    \A r \in Reqs :
        IsReport(r, "bestClients") =>
            LET start == req[r].query[1].start
                end == req[r].query[1].end
                limit == IF req[r].query[1].limit = NULL THEN 2
                         ELSE req[r].query[1].limit[1]
                rows == req[r].body[1]
                listed == {rows[i].id : i \in 1..Len(rows)}
            IN /\ Len(rows) <= limit
               /\ \A i, k \in 1..Len(rows) : i # k => rows[i].id # rows[k].id
               /\ \A i, k \in 1..Len(rows) : i < k => rows[i].paid >= rows[k].paid
               /\ \A i \in 1..Len(rows) :
                     /\ rows[i].id \in Spenders(start, end)
                     /\ rows[i].paid = Spent(rows[i].id, start, end)
               /\ \A c \in Spenders(start, end) \ listed :
                     /\ Len(rows) = limit
                     /\ \A i \in 1..Len(rows) : Spent(c, start, end) <= rows[i].paid

C16_ContractVisibility ==
    \A r \in Reqs :
        /\ (IsReport(r, "contract") /\ req[r].result = "Ok") =>
              /\ req[r].body[1].id = req[r].target
              /\ (req[r].body[1].ClientId = req[r].caller
                    \/ req[r].body[1].ContractorId = req[r].caller)
        /\ (IsReport(r, "contract") /\ req[r].target \in Contracts
              /\ Contract(req[r].target).ClientId # req[r].caller
              /\ Contract(req[r].target).ContractorId # req[r].caller)
              => (req[r].result = "NotFound" /\ req[r].body = NULL)
        /\ IsReport(r, "contracts") =>
              \A c \in req[r].body[1] :
                  c.ClientId = req[r].caller \/ c.ContractorId = req[r].caller

C16_Witness ==
    /\ IsReport("r1", "contract") /\ req["r1"].result = "NotFound"
    /\ req["r1"].target \in Contracts
    /\ IsReport("r2", "contracts") /\ req["r2"].body[1] # {}

\* C17: the unpaid-jobs listing of a profile is exactly the jobs not paid whose
\* contract involves the profile and is not terminated.
C17_UnpaidJobsOfActiveContracts ==
    \A r \in Reqs :
        IsReport(r, "unpaid") =>
            req[r].body[1] =
                {j \in Jobs : /\ ~Truthy(Job[j].paid)
                              /\ JobActive(j)
                              /\ (JobClient(j) = req[r].caller
                                    \/ Contract(JobContractId(j)).ContractorId = req[r].caller)}

\* C20: in the pay handler of src/app.js, a request by the client for an
\* unpaid job of a contract that is not terminated, with price <= balance,
\* served alone, ends answered Paid with the price moved from the client to
\* the contractor and the job marked paid.
C20_OldPayCompletes ==
    \A r \in Reqs :
        (/\ started = 1 /\ req[r].op = "payOld" /\ req[r].pc \in {"done", "failed"}
         /\ req[r].target \in Jobs
         /\ req[r].caller = JobClient(req[r].target) /\ JobActive(req[r].target)
         /\ Job[req[r].target].paymentDate # Some(0)
         /\ JobPrice(req[r].target) <= initial[req[r].caller])
        => /\ req[r].pc = "done" /\ req[r].result = "Paid"
           /\ Profile[req[r].caller].balance
                 = initial[req[r].caller] - JobPrice(req[r].target)
           /\ Truthy(Job[req[r].target].paid)

\* ------------------------------------------------ the remaining claims

\* C21: a step of a pay request that changes a balance or a job belongs to a
\* request whose caller is the client of the job's contract, that contract not
\* terminated; every step of a pay request by any other profile, or for a job
\* of a terminated contract, leaves balances and jobs as they were, and the
\* request is answered NotFound.
C21_OnlyClientTransfers ==
    /\ [][\A r \in Reqs :
            (/\ StepOf(r) /\ (req[r].op = "pay" \/ req'[r].op = "pay")
             /\ (Profile' # Profile \/ Job' # Job))
            => /\ req[r].op = "pay" /\ req[r].target \in Jobs
               /\ req[r].caller = JobClient(req[r].target)
               /\ JobActive(req[r].target)]_vars
    /\ [](\A r \in Reqs :
            (/\ req[r].op = "pay" /\ req[r].target \in Jobs
             /\ (req[r].caller # JobClient(req[r].target) \/ ~JobActive(req[r].target)))
            => req[r].pc = "done" /\ req[r].result = "NotFound")

\* The client's payment of a job went through, and the contractor's request
\* for the same job was answered NotFound.
C21_Witness ==
    \E r, q \in Reqs :
        /\ Answered(r, "pay", "Paid")
        /\ req[r].caller = JobClient(req[r].target)
        /\ Profile[req[r].caller].balance = initial[req[r].caller] - JobPrice(req[r].target)
        /\ Answered(q, "pay", "NotFound") /\ req[q].target = req[r].target
        /\ req[q].caller = Contract(JobContractId(req[q].target)).ContractorId

\* C22: no step of a deposit request lowers the target profile's balance, and
\* none changes another profile's balance or a job, whatever the amount
\* (positive, zero or negative).  Contracts are never written.
C22_DepositNeverLowers ==
    [][\A r \in Reqs :
        (StepOf(r) /\ req[r].op = "deposit" /\ req[r].target \in Profiles)
        => /\ Profile'[req[r].target].balance >= Profile[req[r].target].balance
           /\ \A p \in Profiles \ {req[r].target} : Profile'[p] = Profile[p]
           /\ Job' = Job]_vars

====
